---------------------------- MODULE Spec2Model ----------------------------
(***************************************************************************)
(* A model of streamlit_app.py.  Every run of the page script rebinds the  *)
(* form; a run in which "Generate Portfolio" was pressed checks the form,  *)
(* makes one completion call, parses the reply, renders the justification, *)
(* builds and normalizes the allocation table, renders it, and draws the   *)
(* simulated performance chart; any exception raised inside the try block  *)
(* is shown by the except handler.                                         *)
(*                                                                         *)
(* The allocations are IEEE binary64 values, as json.loads and pandas hold *)
(* them: every operation is rounded to the nearest double, ties to even,   *)
(* and x / 0 is +inf, -inf or NaN.  Subnormal numbers and overflow lie     *)
(* outside the magnitudes of the model and are left out.                   *)
(***************************************************************************)
EXTENDS Integers, Sequences, FiniteSets, TLC

\* Longest 'portfolio' array the completion reply carries in the model.
MaxEntries == 2

-----------------------------------------------------------------------------
(* Natural numbers of any size, the mantissas of the float arithmetic:      *)
(* little-endian sequences of limbs below Base without a leading zero limb; *)
(* <<>> is 0.                                                               *)

LimbBits == 15

Base == 2^LimbBits

RECURSIVE Big(_)
Big(n) == IF n = 0 THEN <<>> ELSE <<n % Base>> \o Big(n \div Base)

Limb(a, i) == IF 1 <= i /\ i <= Len(a) THEN a[i] ELSE 0

RECURSIVE BTrim(_)
BTrim(a) == IF a # <<>> /\ a[Len(a)] = 0 THEN BTrim(SubSeq(a, 1, Len(a) - 1)) ELSE a

RECURSIVE BCmpFrom(_, _, _)
BCmpFrom(a, b, i) ==
    IF i = 0 THEN 0
    ELSE IF a[i] > b[i] THEN 1
    ELSE IF a[i] < b[i] THEN -1
    ELSE BCmpFrom(a, b, i - 1)

\* -1, 0 or 1 as a < b, a = b or a > b.
BCmp(a, b) ==
    IF Len(a) > Len(b) THEN 1
    ELSE IF Len(a) < Len(b) THEN -1
    ELSE BCmpFrom(a, b, Len(a))

RECURSIVE BAddFrom(_, _, _, _)
BAddFrom(a, b, i, carry) ==
    IF i > Len(a) /\ i > Len(b) THEN (IF carry = 0 THEN <<>> ELSE <<carry>>)
    ELSE LET s == Limb(a, i) + Limb(b, i) + carry
         IN  <<s % Base>> \o BAddFrom(a, b, i + 1, s \div Base)

BAdd(a, b) == BAddFrom(a, b, 1, 0)

RECURSIVE BSubFrom(_, _, _, _)
BSubFrom(a, b, i, borrow) ==
    IF i > Len(a) THEN <<>>
    ELSE LET s == a[i] - Limb(b, i) - borrow
         IN  <<s % Base>> \o BSubFrom(a, b, i + 1, IF s < 0 THEN 1 ELSE 0)

\* a - b for a >= b.
BSub(a, b) == BTrim(BSubFrom(a, b, 1, 0))

RECURSIVE BMulSmallFrom(_, _, _, _)
BMulSmallFrom(a, m, i, carry) ==
    IF i > Len(a) THEN (IF carry = 0 THEN <<>> ELSE <<carry>>)
    ELSE LET s == a[i] * m + carry
         IN  <<s % Base>> \o BMulSmallFrom(a, m, i + 1, s \div Base)

\* a * m for 0 <= m <= Base.
BMulSmall(a, m) == IF m = 0 THEN <<>> ELSE BMulSmallFrom(a, m, 1, 0)

\* a * Base^k
BShlLimbs(a, k) == IF a = <<>> THEN a ELSE [i \in 1..k |-> 0] \o a

RECURSIVE BMulFrom(_, _, _)
BMulFrom(a, b, j) ==
    IF j > Len(b) THEN <<>>
    ELSE BAdd(BShlLimbs(BMulSmall(a, b[j]), j - 1), BMulFrom(a, b, j + 1))

BMul(a, b) == BMulFrom(a, b, 1)

BOdd(a) == a # <<>> /\ a[1] % 2 = 1

\* a * 2^k
BShl(a, k) == BShlLimbs(BMulSmall(a, 2^(k % LimbBits)), k \div LimbBits)

\* floor(a / 2^k)
BShr(a, k) ==
    LET drop == k \div LimbBits
        bits == k % LimbBits
        rest == SubSeq(a, drop + 1, Len(a))
    IN  BTrim([i \in 1..Len(rest) |->
                 (rest[i] \div 2^bits) + (Limb(rest, i + 1) % 2^bits) * 2^(LimbBits - bits)])

\* a mod 2^k # 0
BLowBitsSet(a, k) ==
    \/ \E i \in 1..(k \div LimbBits) : Limb(a, i) # 0
    \/ Limb(a, k \div LimbBits + 1) % 2^(k % LimbBits) # 0

\* Bit k of a, counted from 0.
BBit(a, k) == (Limb(a, k \div LimbBits + 1) \div 2^(k % LimbBits)) % 2

RECURSIVE Bits(_)
Bits(n) == IF n = 0 THEN 0 ELSE 1 + Bits(n \div 2)

BitLen(a) == IF a = <<>> THEN 0 ELSE LimbBits * (Len(a) - 1) + Bits(a[Len(a)])

\* The largest q with q * d <= cur, for cur < d * Base and a d whose top limb
\* is at least Base / 2: an estimate from the top limbs, at most 2 too large.
RECURSIVE BDigitFix(_, _, _)
BDigitFix(cur, d, q) == IF BCmp(BMulSmall(d, q), cur) > 0 THEN BDigitFix(cur, d, q - 1) ELSE q

BDigit(cur, d) ==
    LET n == Len(d)
        est == (Limb(cur, n + 1) * Base + Limb(cur, n)) \div d[n]
    IN  BDigitFix(cur, d, IF est > Base - 1 THEN Base - 1 ELSE est)

\* One step of the long division by d: the limb ui is brought down to the
\* remainder st.r and the next digit of the quotient is appended to st.q,
\* whose digits run from the most significant one.
BDivStep(st, ui, d) ==
    IF st.r = <<>> /\ ui = 0 THEN [q |-> Append(st.q, 0), r |-> <<>>]
    ELSE LET cur == <<ui>> \o st.r
             dg == BDigit(cur, d)
         IN  [q |-> Append(st.q, dg), r |-> BSub(cur, BMulSmall(d, dg))]

\* Long division of u by d from limb i of u upwards; the limbs of u above
\* the last Len(d) - 1 steps start the remainder, being less than d.
RECURSIVE BDivFrom(_, _, _)
BDivFrom(u, d, i) ==
    IF i > Len(u) - (Len(d) - 1)
    THEN [q |-> <<>>, r |-> BTrim(SubSeq(u, (IF i > 1 THEN i ELSE 1), Len(u)))]
    ELSE BDivStep(BDivFrom(u, d, i + 1), u[i], d)

\* floor(n / d) and whether n mod d # 0, for d > 0.
BDivMod(n, d) ==
    LET s == LimbBits - Bits(d[Len(d)])
        p == BDivFrom(BShl(n, s), BShl(d, s), 1)
    IN  [q |-> BTrim([i \in 1..Len(p.q) |-> p.q[Len(p.q) + 1 - i]]), inexact |-> p.r # <<>>]

-----------------------------------------------------------------------------
(* IEEE binary64, the float of Python and the float64 of pandas: a finite   *)
(* value is sign * mant * 2^exp with a mant of exactly 53 bits, or a zero   *)
(* of either sign (mant = <<>>).                                            *)

Fin(s, m, e) == [cls |-> "fin", sign |-> s, mant |-> m, exp |-> e]

FZero == Fin(1, <<>>, 0)

FInf(s) == [cls |-> "inf", sign |-> s, mant |-> <<>>, exp |-> 0]

FNaN == [cls |-> "nan", sign |-> 1, mant |-> <<>>, exp |-> 0]

\* sign * n * 2^e rounded to the nearest double, ties to even; sticky says
\* that the exact value lies a little above n * 2^e.
RoundSticky(s, n, e, sticky) ==
    LET len == BitLen(n)
    IN  IF n = <<>> THEN Fin(s, <<>>, 0)
        ELSE IF len <= 53 THEN Fin(s, BShl(n, 53 - len), e - (53 - len))
        ELSE LET k == len - 53
                 q0 == BShr(n, k)
                 up == BBit(n, k - 1) = 1
                       /\ (sticky \/ BLowBitsSet(n, k - 1) \/ BOdd(q0))
                 q == IF up THEN BAdd(q0, <<1>>) ELSE q0
             IN  IF BitLen(q) > 53 THEN Fin(s, BShr(q, 1), e + k + 1) ELSE Fin(s, q, e + k)

RoundInt(s, n, e) == RoundSticky(s, n, e, FALSE)

\* sign * (n / d) * 2^e rounded to the nearest double.
RoundRat(s, n, d, e) ==
    IF n = <<>> THEN Fin(s, <<>>, 0)
    ELSE LET t == 55 + BitLen(d) - BitLen(n)
             p == IF t >= 0 THEN BDivMod(BShl(n, t), d) ELSE BDivMod(n, BShl(d, -t))
         IN  RoundSticky(s, p.q, e - t, p.inexact)

\* The float json.loads makes of the decimal literal n/d (d a power of 10).
FromDec(n, d) ==
    RoundRat(IF n < 0 THEN -1 ELSE 1, Big(IF n < 0 THEN -n ELSE n), Big(d), 0)

FIsZero(x) == x.cls = "fin" /\ x.mant = <<>>

FNeg(x) == IF x.cls = "nan" THEN x ELSE [x EXCEPT !.sign = -x.sign]

\* abs(x)
FAbs(x) == [x EXCEPT !.sign = 1]

\* x + y; an exact zero sum is +0 unless both terms are -0.
FAdd(x, y) ==
    IF x.cls = "nan" \/ y.cls = "nan" THEN FNaN
    ELSE IF x.cls = "inf" THEN (IF y.cls = "inf" /\ y.sign # x.sign THEN FNaN ELSE x)
    ELSE IF y.cls = "inf" THEN y
    ELSE IF FIsZero(x) /\ FIsZero(y) THEN (IF x.sign = y.sign THEN x ELSE FZero)
    ELSE IF FIsZero(x) THEN y
    ELSE IF FIsZero(y) THEN x
    ELSE LET e == IF x.exp < y.exp THEN x.exp ELSE y.exp
             mx == BShl(x.mant, x.exp - e)
             my == BShl(y.mant, y.exp - e)
             c == BCmp(mx, my)
         IN  IF x.sign = y.sign THEN RoundInt(x.sign, BAdd(mx, my), e)
             ELSE IF c = 0 THEN FZero
             ELSE IF c > 0 THEN RoundInt(x.sign, BSub(mx, my), e)
             ELSE RoundInt(y.sign, BSub(my, mx), e)

\* x - y
FSub(x, y) == FAdd(x, FNeg(y))

\* x * y
FMul(x, y) ==
    IF x.cls = "nan" \/ y.cls = "nan" THEN FNaN
    ELSE IF x.cls = "inf" \/ y.cls = "inf"
    THEN (IF FIsZero(x) \/ FIsZero(y) THEN FNaN ELSE FInf(x.sign * y.sign))
    ELSE RoundInt(x.sign * y.sign, BMul(x.mant, y.mant), x.exp + y.exp)

\* x / y as numpy divides: x / 0 is inf with the sign of the quotient, 0 / 0
\* is NaN, and no exception is raised.
FDiv(x, y) ==
    IF x.cls = "nan" \/ y.cls = "nan" THEN FNaN
    ELSE IF x.cls = "inf" THEN (IF y.cls = "inf" THEN FNaN ELSE FInf(x.sign * y.sign))
    ELSE IF y.cls = "inf" THEN Fin(x.sign * y.sign, <<>>, 0)
    ELSE IF FIsZero(y) THEN (IF FIsZero(x) THEN FNaN ELSE FInf(x.sign * y.sign))
    ELSE RoundRat(x.sign * y.sign, x.mant, y.mant, x.exp - y.exp)

\* -1, 0 or 1 as |x| < |y|, |x| = |y| or |x| > |y|, for x and y not NaN.
FMagCmp(x, y) ==
    IF x.cls = "inf" THEN (IF y.cls = "inf" THEN 0 ELSE 1)
    ELSE IF y.cls = "inf" THEN -1
    ELSE IF FIsZero(x) THEN (IF FIsZero(y) THEN 0 ELSE -1)
    ELSE IF FIsZero(y) THEN 1
    ELSE IF x.exp > y.exp THEN 1
    ELSE IF x.exp < y.exp THEN -1
    ELSE BCmp(x.mant, y.mant)

\* x > y; every comparison with NaN is false.
FGt(x, y) ==
    IF x.cls = "nan" \/ y.cls = "nan" THEN FALSE
    ELSE LET sx == IF FIsZero(x) THEN 0 ELSE x.sign
             sy == IF FIsZero(y) THEN 0 ELSE y.sign
         IN  IF sx # sy THEN sx > sy
             ELSE IF sx = 0 THEN FALSE
             ELSE sx * FMagCmp(x, y) > 0

-----------------------------------------------------------------------------
(* Calendar arithmetic of datetime.date.                                    *)

MkDate(y, m, d) == [year |-> y, month |-> m, day |-> d]

\* custom_start_date = None
NoDate == MkDate(0, 0, 0)

IsLeap(y) == (y % 4 = 0) /\ ((y % 100 # 0) \/ (y % 400 = 0))

DaysInMonth(y, m) ==
    IF m = 2 THEN (IF IsLeap(y) THEN 29 ELSE 28)
    ELSE IF m \in {4, 6, 9, 11} THEN 30 ELSE 31

\* Days of the year before the first of month m.
DaysBeforeMonth(y, m) ==
    <<0, 31, 59, 90, 120, 151, 181, 212, 243, 273, 304, 334>>[m]
        + (IF m > 2 /\ IsLeap(y) THEN 1 ELSE 0)

DaysBeforeYear(y) ==
    LET p == y - 1 IN p * 365 + (p \div 4) - (p \div 100) + (p \div 400)

\* date.toordinal()
ToOrdinal(dt) == DaysBeforeYear(dt.year) + DaysBeforeMonth(dt.year, dt.month) + dt.day

\* (a - b).days
DateSubDays(a, b) == ToOrdinal(a) - ToOrdinal(b)

\* The date the clock shows after midnight of day a.
NextDay(a) ==
    IF a.day < DaysInMonth(a.year, a.month) THEN MkDate(a.year, a.month, a.day + 1)
    ELSE IF a.month < 12 THEN MkDate(a.year, a.month + 1, 1)
    ELSE MkDate(a.year + 1, 1, 1)

-----------------------------------------------------------------------------
(* Form inputs, completion replies and clock readings the runs range over.  *)

Texts == {"", "Invest in AI"}

Keys == {"", "sk-1"}

Timeframes == {"MTD", "QTD", "YTD", "1Y", "5Y", "Since Custom Date"}

CustomDates ==
    {MkDate(2023, 1, 1), MkDate(2024, 2, 29), MkDate(2025, 8, 15), MkDate(2026, 1, 1)}

\* The dates on which the chart step starts.
Todays ==
    {MkDate(2024, 1, 1), MkDate(2024, 1, 31), MkDate(2024, 6, 30), MkDate(2024, 12, 31),
     MkDate(2025, 2, 28), MkDate(2025, 8, 14), MkDate(2025, 8, 15)}

\* The calls of datetime.date.today() between the num_days dictionary and
\* pd.date_range, in the order the interpreter makes them: two for "MTD",
\* three for "QTD", two for "YTD", one for the default of .get and one for
\* the end of the date range.  The dictionary is built whole whatever the
\* timeframe is; the default is read only when a custom date is set.
ClockReads == 9

\* The dates the reads return when the chart step starts on day d and
\* midnight passes after k of them.
Readings(d, k) == [i \in 1..ClockReads |-> IF i <= k THEN d ELSE NextDay(d)]

TopKeys == {"portfolio", "overallJustification"}

EntryKeys == {"symbol", "name", "allocation", "justification"}

\* The allocation field of an entry without the key; never read.
NoLiteral == <<0, 0>>

\* One object of the 'portfolio' array of the reply text; the allocation is
\* the decimal literal <<n, d>>, n/d with d a power of 10.  A field whose key
\* is absent holds a placeholder that is never read.
MkEntry(ks, s, n, a, j) ==
    [keys |-> ks,
     symbol |-> IF "symbol" \in ks THEN s ELSE "",
     name |-> IF "name" \in ks THEN n ELSE "",
     allocation |-> IF "allocation" \in ks THEN a ELSE NoLiteral,
     justification |-> IF "justification" \in ks THEN j ELSE ""]

\* 60, 50, 0.2, 0, -50
AllocsA == {<<60, 1>>, <<50, 1>>, <<2, 10>>, <<0, 1>>, <<-50, 1>>}

\* 60, 50.05, 50.1, 49.9, 99.9, 50, -50
AllocsB ==
    {<<60, 1>>, <<5005, 100>>, <<501, 10>>, <<499, 10>>, <<999, 10>>, <<50, 1>>, <<-50, 1>>}

AllocsC == {<<10, 1>>}

\* The objects the reply carries at position i of the array.
EntryPool(i) ==
    IF i = 1
    THEN {MkEntry(EntryKeys, "A", "Alpha", a, "x") : a \in AllocsA}
         \cup {MkEntry(EntryKeys \ {"allocation"}, "A", "Alpha", NoLiteral, "x")}
    ELSE IF i = 2
    THEN {MkEntry(EntryKeys, "B", "Beta", a, "y") : a \in AllocsB}
         \cup {MkEntry(EntryKeys \ {"symbol"}, "B", "Beta", <<60, 1>>, "y"),
               MkEntry(EntryKeys \ {"name", "justification"}, "B", "Beta", <<5005, 100>>, "y")}
    ELSE {MkEntry(EntryKeys, "C", "Gamma", a, "z") : a \in AllocsC}

\* Allocation columns of the 10-15 assets the prompt asks for, and of 8 and
\* 17: eight 0.1; ten 0.1; eight literals that add up to 100.1; twelve that
\* add up to 99.9; seventeen that add up to 116.4.
LongColumns ==
    {[i \in 1..8 |-> <<1, 10>>],
     [i \in 1..10 |-> <<1, 10>>],
     <<<<7, 10>>, <<1085, 100>>, <<1962, 100>>, <<391, 100>>, <<646, 100>>, <<1653, 100>>,
       <<1713, 100>>, <<249, 10>>>>,
     <<<<2, 1>>, <<74, 100>>, <<279, 100>>, <<1014, 100>>, <<445, 100>>, <<529, 100>>,
       <<1978, 100>>, <<1377, 100>>, <<894, 100>>, <<1596, 100>>, <<1284, 100>>,
       <<32, 10>>>>,
     <<<<2, 1>>, <<74, 100>>, <<279, 100>>, <<1014, 100>>, <<445, 100>>, <<529, 100>>,
       <<1978, 100>>, <<1377, 100>>, <<894, 100>>, <<1596, 100>>, <<1284, 100>>,
       <<32, 10>>, <<11, 10>>, <<22, 10>>, <<33, 10>>, <<44, 10>>, <<55, 10>>>>}

\* The replies with a long array: every object complete, or the third one
\* without its 'allocation'.
LongPortfolios ==
    {[i \in DOMAIN c |-> MkEntry(EntryKeys, "C", "Gamma", c[i], "z")] : c \in LongColumns}
    \cup {[i \in 1..8 |-> IF i = 3
                          THEN MkEntry(EntryKeys \ {"allocation"}, "C", "Gamma", NoLiteral, "z")
                          ELSE MkEntry(EntryKeys, "C", "Gamma", <<1, 10>>, "z")]}

\* The arrays of up to MaxEntries objects, and the long ones.
Portfolios ==
    UNION {{p \in [1..n -> UNION {EntryPool(i) : i \in 1..n}] :
                \A i \in 1..n : p[i] \in EntryPool(i)} : n \in 0..MaxEntries}
    \cup LongPortfolios

\* The completion text, by what json.loads makes of it: text that is not
\* JSON, a JSON array, or a JSON object with some of the top-level keys.
MkContent(k, ks, p, j) ==
    [kind |-> k, keys |-> ks,
     portfolio |-> IF "portfolio" \in ks THEN p ELSE <<>>,
     overallJustification |-> IF "overallJustification" \in ks THEN j ELSE ""]

NoContent == MkContent("none", {}, <<>>, "")

Contents ==
    {MkContent("text", {}, <<>>, ""), MkContent("array", {}, <<>>, "")}
    \cup {MkContent("object", ks, p, "z") : ks \in SUBSET TopKeys, p \in Portfolios}

\* Failures of client.chat.completions.create: exception type and message.
MkExc(t, m) == [type |-> t, msg |-> m]

NoExc == MkExc("", "")

TransportFailures ==
    {MkExc("APIConnectionError", "Connection error."),
     MkExc("AuthenticationError", "Incorrect API key provided")}

-----------------------------------------------------------------------------
(* The parsed reply, DataFrame construction and the allocation column.      *)

\* The list json.loads makes of the 'portfolio' array: every allocation
\* literal becomes the nearest float.
LoadsPortfolio(p) ==
    [i \in DOMAIN p |->
        [p[i] EXCEPT !.allocation =
            IF "allocation" \in p[i].keys THEN FromDec(@[1], @[2]) ELSE FNaN]]

\* pd.DataFrame(list of dicts): the columns are the union of the keys, and a
\* key an entry lacks becomes a NaN cell.
DataFrame(p) ==
    [built |-> TRUE,
     columns |-> UNION {p[i].keys : i \in DOMAIN p},
     rows |-> [i \in DOMAIN p |->
                 [symbol |-> IF "symbol" \in p[i].keys THEN p[i].symbol ELSE "NaN",
                  name |-> IF "name" \in p[i].keys THEN p[i].name ELSE "NaN",
                  allocation |-> IF "allocation" \in p[i].keys THEN p[i].allocation ELSE FNaN,
                  justification |->
                      IF "justification" \in p[i].keys THEN p[i].justification ELSE "NaN"]]]

NoFrame == [built |-> FALSE, columns |-> {}, rows |-> <<>>]

\* Accumulator j of numpy's unrolled loop after the block of eight cells
\* that starts behind cell i: r[j] = a[j] + a[8 + j] + ... + a[i + j].
RECURSIVE LaneSum(_, _, _)
LaneSum(a, j, i) ==
    IF i = 0 THEN a[j] ELSE FAdd(LaneSum(a, j, i - 8), a[i + j])

\* res += a[i] for the cells from i to the last.
RECURSIVE TailSum(_, _, _)
TailSum(a, res, i) ==
    IF i > Len(a) THEN res ELSE TailSum(a, FAdd(res, a[i]), i + 1)

\* numpy's pairwise summation of a contiguous array: fewer than 8 cells are
\* added from the first to the last; up to 128 cells go through eight
\* accumulators that are added as ((r1+r2)+(r3+r4))+((r5+r6)+(r7+r8)), the
\* cells behind the last whole block of eight added one by one; a longer
\* array is split at a multiple of eight near its middle.
RECURSIVE PairwiseSum(_)
PairwiseSum(a) ==
    LET n == Len(a)
    IN  IF n < 8 THEN TailSum(a, FZero, 1)
        ELSE IF n <= 128
        THEN LET m == n - (n % 8)
                 r == [j \in 1..8 |-> LaneSum(a, j, m - 8)]
             IN  TailSum(a,
                         FAdd(FAdd(FAdd(r[1], r[2]), FAdd(r[3], r[4])),
                              FAdd(FAdd(r[5], r[6]), FAdd(r[7], r[8]))),
                         m + 1)
        ELSE LET n2 == (n \div 2) - ((n \div 2) % 8)
             IN  FAdd(PairwiseSum(SubSeq(a, 1, n2)), PairwiseSum(SubSeq(a, n2 + 1, n)))

\* Series.sum(): the NaN cells are replaced by 0.0, the column is reduced by
\* numpy's add from the initial 0.0; an empty sum is 0.0.
ColumnSum(rows) ==
    FAdd(FZero, PairwiseSum([i \in DOMAIN rows |->
                                IF rows[i].allocation.cls = "nan" THEN FZero
                                ELSE rows[i].allocation]))

\* Mutant: the rescale guarded by total_alloc > 0.
NeedsAdjustPositiveOnly(total) ==
    FGt(total, FZero) /\ FGt(FAbs(FSub(total, FromDec(100, 1))), FromDec(1, 10))

\* abs(total_alloc - 100) > 0.1
NeedsAdjust(total) == FGt(FAbs(FSub(total, FromDec(100, 1))), FromDec(1, 10))

\* Mutant: the rescale without the factor 100, df['allocation'] / total_alloc.
RescaleToUnit(rows, total) ==
    [i \in DOMAIN rows |-> [rows[i] EXCEPT !.allocation = FDiv(@, total)]]

\* df['allocation'] / total_alloc * 100
Rescale(rows, total) ==
    [i \in DOMAIN rows |->
        [rows[i] EXCEPT !.allocation = FMul(FDiv(@, total), FromDec(100, 1))]]

\* The columns of ['symbol', 'name', 'allocation', 'justification'] that the
\* frame lacks, in that order, written as pandas writes the list.
TableColumns == <<"symbol", "name", "allocation", "justification">>

RECURSIVE MissingList(_, _)
MissingList(cols, k) ==
    IF k > Len(TableColumns) THEN ""
    ELSE IF TableColumns[k] \in cols THEN MissingList(cols, k + 1)
    ELSE LET rest == MissingList(cols, k + 1)
         IN  "'" \o TableColumns[k] \o "'" \o (IF rest = "" THEN "" ELSE ", " \o rest)

-----------------------------------------------------------------------------
(* Length of the simulated series.                                          *)

\* The value .get(timeframe, default) selects from the dictionary of lines
\* 78-84; r[i] is the date the i-th call of datetime.date.today() returned.
NumDays(tf, r, custom) ==
    CASE tf = "MTD" -> DateSubDays(r[1], MkDate(r[2].year, r[2].month, 1))
      [] tf = "QTD" ->
            DateSubDays(r[3], MkDate(r[4].year, 3 * ((r[5].month - 1) \div 3) + 1, 1))
      [] tf = "YTD" -> DateSubDays(r[6], MkDate(r[7].year, 1, 1))
      [] tf = "1Y" -> 365
      [] tf = "5Y" -> 365 * 5
      [] OTHER -> IF custom # NoDate THEN DateSubDays(r[8], custom) ELSE 365

\* Lengths of the columns of perf_df; the values of the two random walks are
\* draws of np.random.randn and are not modelled.
MkPerf(n) == [built |-> TRUE, Date |-> n, Portfolio |-> n, SPY |-> n]

NoPerf == [built |-> FALSE, Date |-> 0, Portfolio |-> 0, SPY |-> 0]

-----------------------------------------------------------------------------
(* Pieces of the workflow.                                                  *)

\* Mutant: the FMP key, which no later step uses, left out of the check.
FieldsMissingWithoutFmp(thesis, okey, fkey) == thesis = "" \/ okey = ""

\* not investment_thesis or not openai_api_key or not fmp_api_key
FieldsMissing(thesis, okey, fkey) == thesis = "" \/ okey = "" \/ fkey = ""

MissingInputText == "Please provide all required fields."

\* Mutant: text that is not JSON parsed leniently to an empty object.
ParseExcLenientLoads(c) ==
    IF c.kind = "array"
    THEN MkExc("TypeError", "list indices must be integers or slices, not str")
    ELSE IF "portfolio" \notin c.keys THEN MkExc("KeyError", "'portfolio'")
    ELSE IF "overallJustification" \notin c.keys
    THEN MkExc("KeyError", "'overallJustification'")
    ELSE NoExc

\* Mutant: the justification read with a default,
\* portfolio_data.get('overallJustification', '').
ParseExcDefaultJustification(c) ==
    IF c.kind = "text"
    THEN MkExc("JSONDecodeError", "Expecting value: line 1 column 1 (char 0)")
    ELSE IF c.kind = "array"
    THEN MkExc("TypeError", "list indices must be integers or slices, not str")
    ELSE IF "portfolio" \notin c.keys THEN MkExc("KeyError", "'portfolio'")
    ELSE NoExc

\* json.loads(content), portfolio_data['portfolio'] and
\* portfolio_data['overallJustification'], in that order: the exception the
\* first failing one raises, or none.
ParseExc(c) ==
    IF c.kind = "text"
    THEN MkExc("JSONDecodeError", "Expecting value: line 1 column 1 (char 0)")
    ELSE IF c.kind = "array"
    THEN MkExc("TypeError", "list indices must be integers or slices, not str")
    ELSE IF "portfolio" \notin c.keys THEN MkExc("KeyError", "'portfolio'")
    ELSE IF "overallJustification" \notin c.keys
    THEN MkExc("KeyError", "'overallJustification'")
    ELSE NoExc

\* The exception of df['allocation'] on a frame without that column, or none.
AllocationExc(d) ==
    IF "allocation" \in d.columns THEN NoExc ELSE MkExc("KeyError", "'allocation'")

\* The exception of df[['symbol', 'name', 'allocation', 'justification']] on a
\* frame lacking some of the columns, or none.
TableExc(d) ==
    IF EntryKeys \subseteq d.columns THEN NoExc
    ELSE MkExc("KeyError", "\"[" \o MissingList(d.columns, 1) \o "] not in index\"")

\* The exception of np.random.randn(num_days) for a negative length, or none
\* (a pandas that checks 'periods' raises its own ValueError one line before).
SeriesExc(n) ==
    IF n < 0 THEN MkExc("ValueError", "negative dimensions are not allowed") ELSE NoExc

\* f"An error occurred: {str(e)}"
ExceptText(e) == "An error occurred: " \o e.msg

NoTotal == <<>>

\* The clock before the chart step has read it.
NoClock == [first |-> NoDate, last |-> NoDate]

-----------------------------------------------------------------------------
VARIABLES
    pc,                  \* where the script run stands
    investment_thesis, openai_api_key, fmp_api_key,
    timeframe, custom_start_date,
    calls,               \* completion calls issued by this run
    content,             \* response.choices[0].message.content
    portfolio, justification,
    df, total_alloc,
    today,               \* the first and the last datetime.date.today() of the chart step
    perf_df,
    page,                \* the elements rendered by this run, in order
    error_text,          \* the argument of st.error
    exc                  \* the exception caught by the except clause

vars ==
    <<pc, investment_thesis, openai_api_key, fmp_api_key, timeframe,
      custom_start_date, calls, content, portfolio, justification, df,
      total_alloc, today, perf_df, page, error_text, exc>>

form == <<investment_thesis, openai_api_key, fmp_api_key, timeframe, custom_start_date>>

Rendered(x) == \E i \in DOMAIN page : page[i] = x

Init ==
    /\ pc = "idle"
    /\ investment_thesis = ""
    /\ openai_api_key = ""
    /\ fmp_api_key = ""
    /\ timeframe = "MTD"
    /\ custom_start_date = NoDate
    /\ calls = 0
    /\ content = NoContent
    /\ portfolio = <<>>
    /\ justification = ""
    /\ df = NoFrame
    /\ total_alloc = NoTotal
    /\ today = NoClock
    /\ perf_df = NoPerf
    /\ page = <<>>
    /\ error_text = ""
    /\ exc = NoExc

\* A run of the script without the button pressed (the first load, or the
\* rerun after a widget was edited): the form variables are rebound to the
\* widgets' values and nothing below st.button is executed or rendered.
Rerun ==
    /\ pc \in {"idle", "done"}
    /\ \E thesis \in Texts, okey \in Keys, fkey \in Keys, tf \in Timeframes :
        /\ investment_thesis' = thesis
        /\ openai_api_key' = okey
        /\ fmp_api_key' = fkey
        /\ timeframe' = tf
        /\ \E cd \in (IF tf = "Since Custom Date" THEN CustomDates ELSE {NoDate}) :
              custom_start_date' = cd
    /\ pc' = "idle"
    /\ page' = <<>>
    /\ error_text' = ""
    /\ calls' = 0
    /\ content' = NoContent
    /\ portfolio' = <<>>
    /\ justification' = ""
    /\ df' = NoFrame
    /\ total_alloc' = NoTotal
    /\ today' = NoClock
    /\ perf_df' = NoPerf
    /\ exc' = NoExc

\* The button is pressed: the script reruns from the top with the form's
\* values, checks the required fields and, when they are all there, shows the
\* prompt and the "Sending request" notice.
Submit ==
    /\ pc \in {"idle", "done"}
    /\ \E thesis \in Texts, okey \in Keys, fkey \in Keys, tf \in Timeframes :
        /\ investment_thesis' = thesis
        /\ openai_api_key' = okey
        /\ fmp_api_key' = fkey
        /\ timeframe' = tf
        /\ \E cd \in (IF tf = "Since Custom Date" THEN CustomDates ELSE {NoDate}) :
              custom_start_date' = cd
        /\ IF FieldsMissing(thesis, okey, fkey)
           THEN /\ page' = <<"error">>
                /\ error_text' = MissingInputText
                /\ pc' = "done"
           ELSE /\ page' = <<"prompt", "info">>
                /\ error_text' = ""
                /\ pc' = "call"
    /\ calls' = 0
    /\ content' = NoContent
    /\ portfolio' = <<>>
    /\ justification' = ""
    /\ df' = NoFrame
    /\ total_alloc' = NoTotal
    /\ today' = NoClock
    /\ perf_df' = NoPerf
    /\ exc' = NoExc

\* client.chat.completions.create raises.
CallFails ==
    /\ pc = "call"
    /\ calls' = calls + 1
    /\ \E e \in TransportFailures : exc' = e
    /\ pc' = "except"
    /\ UNCHANGED <<form, content, portfolio, justification, df, total_alloc, today,
                   perf_df, page, error_text>>

\* client.chat.completions.create returns; the reply and its text are shown.
CallReturns ==
    /\ pc = "call"
    /\ calls' = calls + 1
    /\ \E c \in Contents : content' = c
    /\ page' = page \o <<"success", "response_json", "content">>
    /\ pc' = "parse"
    /\ UNCHANGED <<form, portfolio, justification, df, total_alloc, today, perf_df,
                   error_text, exc>>

\* json.loads and the two top-level key reads: 'portfolio' is bound before
\* 'overallJustification' is read, and stays bound when that read fails.
Parse ==
    /\ pc = "parse"
    /\ IF ParseExc(content) # NoExc
       THEN /\ exc' = ParseExc(content)
            /\ pc' = "except"
            /\ portfolio' = IF content.kind = "object" /\ "portfolio" \in content.keys
                            THEN LoadsPortfolio(content.portfolio)
                            ELSE portfolio
            /\ UNCHANGED justification
       ELSE /\ portfolio' = LoadsPortfolio(content.portfolio)
            /\ justification' = content.overallJustification
            /\ pc' = "justify"
            /\ UNCHANGED exc
    /\ UNCHANGED <<form, calls, content, df, total_alloc, today, perf_df, page,
                   error_text>>

\* The strategy subheader and the overall justification are written.
RenderJustification ==
    /\ pc = "justify"
    /\ page' = page \o <<"subheader_strategy", "justification">>
    /\ pc' = "normalize"
    /\ UNCHANGED <<form, calls, content, portfolio, justification, df, total_alloc,
                   today, perf_df, error_text, exc>>

\* The frame is built, the allocations are summed and, when the total is
\* more than 0.1 away from 100, the warning is shown and the column rescaled.
Normalize ==
    /\ pc = "normalize"
    /\ LET d == DataFrame(portfolio)
           total == ColumnSum(d.rows)
       IN  IF AllocationExc(d) # NoExc
           THEN /\ df' = d
                /\ exc' = AllocationExc(d)
                /\ pc' = "except"
                /\ UNCHANGED <<total_alloc, page>>
           ELSE /\ total_alloc' = total
                /\ IF NeedsAdjust(total)
                   THEN /\ page' = Append(page, "warning")
                        /\ df' = [d EXCEPT !.rows = Rescale(d.rows, total)]
                   ELSE /\ page' = page
                        /\ df' = d
                /\ pc' = "table"
                /\ UNCHANGED exc
    /\ UNCHANGED <<form, calls, content, portfolio, justification, today, perf_df,
                   error_text>>

\* The composition subheader and the four columns of the frame are shown.
RenderTable ==
    /\ pc = "table"
    /\ IF TableExc(df) # NoExc
       THEN /\ page' = Append(page, "subheader_composition")
            /\ exc' = TableExc(df)
            /\ pc' = "except"
       ELSE /\ page' = page \o <<"subheader_composition", "table">>
            /\ pc' = "chart"
            /\ UNCHANGED exc
    /\ UNCHANGED <<form, calls, content, portfolio, justification, df, total_alloc,
                   today, perf_df, error_text>>

\* The performance subheader, the series over num_days days and the plot.
\* Every datetime.date.today() is a read of the clock of its own, and
\* midnight may pass between any two of them.
RenderChart ==
    /\ pc = "chart"
    /\ \E d \in Todays, k \in 0..ClockReads :
        LET r == Readings(d, k)
            n == NumDays(timeframe, r, custom_start_date)
        IN  /\ today' = [first |-> r[1], last |-> r[ClockReads]]
            /\ IF SeriesExc(n) # NoExc
               THEN /\ page' = Append(page, "subheader_performance")
                    /\ exc' = SeriesExc(n)
                    /\ pc' = "except"
                    /\ UNCHANGED perf_df
               ELSE /\ page' = page \o <<"subheader_performance", "chart">>
                    /\ perf_df' = MkPerf(n)
                    /\ pc' = "done"
                    /\ UNCHANGED exc
    /\ UNCHANGED <<form, calls, content, portfolio, justification, df, total_alloc,
                   error_text>>

\* Mutant: the handler sends a failed completion call round again.
ExceptRetriesCall ==
    /\ pc = "except"
    /\ IF exc \in TransportFailures
       THEN /\ pc' = "call"
            /\ UNCHANGED <<page, error_text>>
       ELSE /\ error_text' = ExceptText(exc)
            /\ page' = page \o <<"error", "exception">>
            /\ pc' = "done"
    /\ UNCHANGED <<form, calls, content, portfolio, justification, df, total_alloc,
                   today, perf_df, exc>>

\* except Exception as e: the message and the traceback are shown.
Except ==
    /\ pc = "except"
    /\ error_text' = ExceptText(exc)
    /\ page' = page \o <<"error", "exception">>
    /\ pc' = "done"
    /\ UNCHANGED <<form, calls, content, portfolio, justification, df, total_alloc,
                   today, perf_df, exc>>

Next ==
    \/ Rerun
    \/ Submit
    \/ CallFails
    \/ CallReturns
    \/ Parse
    \/ RenderJustification
    \/ Normalize
    \/ RenderTable
    \/ RenderChart
    \/ Except

Spec == Init /\ [][Next]_vars

-----------------------------------------------------------------------------
(* Vocabulary of the properties.  The allocations the reply gave are        *)
(* decimal literals; their sum is taken in exact rational arithmetic, and a *)
(* float is compared with a decimal bound exactly.                          *)

Abs(n) == IF n < 0 THEN -n ELSE n

RECURSIVE Gcd(_, _)
Gcd(a, b) == IF b = 0 THEN a ELSE Gcd(b, a % b)

\* The fraction n/d, d > 0, in lowest terms.
Norm(n, d) == LET g == Gcd(Abs(n), d) IN <<n \div g, d \div g>>

RAdd(a, b) == Norm(a[1] * b[2] + b[1] * a[2], a[2] * b[2])

RGt(a, b) == a[1] * b[2] > b[1] * a[2]

\* The allocation literal of entry i of the reply.
DecAlloc(i) == content.portfolio[i].allocation

\* The exact sum of the allocation literals of the reply from entry k on,
\* added to the fraction acc (whose denominator is positive).
RECURSIVE DecSum(_, _)
DecSum(k, acc) ==
    IF acc[2] > 0 /\ k <= Len(content.portfolio)
    THEN DecSum(k + 1, IF "allocation" \in content.portfolio[k].keys
                       THEN RAdd(acc, DecAlloc(k)) ELSE acc)
    ELSE acc

DecTotal == DecSum(1, <<0, 1>>)

\* |t - 100| > 0.1 for a fraction t.
DecFarFrom100(t) == RGt(t, <<1001, 10>>) \/ RGt(<<999, 10>>, t)

\* -1, 0 or 1 as |x| < n/d, |x| = n/d or |x| > n/d, exactly, for a finite x
\* and n >= 0, d > 0.
MagCmpDec(x, n, d) ==
    LET a == BMul(x.mant, Big(d))
        b == Big(n)
    IN  IF x.exp >= 0 THEN BCmp(BShl(a, x.exp), b) ELSE BCmp(a, BShl(b, -x.exp))

\* -1, 0 or 1 as x < n/d, x = n/d or x > n/d, exactly, for x not NaN.
CmpDec(x, n, d) ==
    LET sx == IF FIsZero(x) THEN 0 ELSE x.sign
        sn == IF n > 0 THEN 1 ELSE IF n < 0 THEN -1 ELSE 0
    IN  IF sx # sn THEN (IF sx > sn THEN 1 ELSE -1)
        ELSE IF sx = 0 THEN 0
        ELSE IF x.cls = "inf" THEN sx
        ELSE sx * MagCmpDec(x, Abs(n), d)

\* x > n/d
FExceeds(x, n, d) == x.cls # "nan" /\ CmpDec(x, n, d) > 0

\* x < n/d
FBelow(x, n, d) == x.cls # "nan" /\ CmpDec(x, n, d) < 0

\* |t - 100| > 0.1 for a float t, in exact arithmetic.
FarFrom100(t) == FExceeds(t, 1001, 10) \/ FBelow(t, 999, 10)

\* The allocation of entry i as parsed and as the frame holds it.
InAlloc(i) == portfolio[i].allocation

OutAlloc(i) == df.rows[i].allocation

\* The cell the frame is built with for entry i.
InCell(i) == IF "allocation" \in portfolio[i].keys THEN InAlloc(i) ELSE FNaN

\* The parsed allocations added up in floats as Series.sum adds a column.
InputTotal == ColumnSum([i \in DOMAIN portfolio |-> [allocation |-> InCell(i)]])

\* The allocation column of the frame added up in floats the same way.
OutputTotal == ColumnSum(df.rows)

\* |p - q| <= 1e-9 * |q|
Close(p, q) == ~FGt(FAbs(FSub(p, q)), FMul(FromDec(1, 1000000000), FAbs(q)))

\* The normalization step has run to its end on the parsed portfolio.
NormalizationDone == df.built /\ total_alloc # NoTotal

NoPortfolioOutput ==
    /\ ~Rendered("justification")
    /\ ~Rendered("table")
    /\ ~Rendered("chart")

FullPortfolioOutput ==
    /\ Rendered("justification")
    /\ Rendered("table")
    /\ Rendered("chart")

RunEnded == pc = "done"

-----------------------------------------------------------------------------
\* C1: when the allocations of the parsed portfolio sum to a total > 0 that is
\* more than 0.1 away from 100 (the total taken exactly from the literals, or
\* as the float the code computes), after normalization every allocation is
\* finite, the allocations sum to 100 within 1e-6, and every ratio
\* allocation_i / allocation_j is what it was before (by cross-multiplication,
\* within a relative 1e-9); allocations 60 and 60 become exactly 50 and 50.
C1_RescaleSumsTo100 ==
    (/\ NormalizationDone
     /\ \/ RGt(DecTotal, <<0, 1>>) /\ DecFarFrom100(DecTotal)
        \/ FExceeds(total_alloc, 0, 1) /\ FarFrom100(total_alloc)) =>
        /\ Len(df.rows) = Len(portfolio)
        /\ \A i \in DOMAIN portfolio :
              "allocation" \in portfolio[i].keys => OutAlloc(i).cls = "fin"
        /\ ~FExceeds(OutputTotal, 100000001, 1000000)
        /\ ~FBelow(OutputTotal, 99999999, 1000000)
        /\ \A i, j \in DOMAIN portfolio :
              (i < j /\ "allocation" \in portfolio[i].keys
                     /\ "allocation" \in portfolio[j].keys)
                  => Close(FMul(OutAlloc(i), InAlloc(j)), FMul(OutAlloc(j), InAlloc(i)))
        /\ (Len(portfolio) = 2 /\ portfolio[1].keys = EntryKeys /\ portfolio[2].keys = EntryKeys
              /\ DecAlloc(1) = <<60, 1>> /\ DecAlloc(2) = <<60, 1>>)
                  => (OutAlloc(1) = FromDec(50, 1) /\ OutAlloc(2) = FromDec(50, 1))

C1_Witness ==
    /\ RunEnded
    /\ Rendered("table")
    /\ Len(portfolio) = 2
    /\ portfolio[1].keys = EntryKeys
    /\ portfolio[2].keys = EntryKeys
    /\ DecAlloc(1) = <<60, 1>>
    /\ DecAlloc(2) = <<60, 1>>
    /\ Rendered("warning")
    /\ OutAlloc(1) = FromDec(50, 1)
    /\ OutAlloc(2) = FromDec(50, 1)

\* C2: when the allocations of the reply sum to a total within 0.1 of 100,
\* the boundary included, every entry of the frame (and so of the rendered
\* table) carries the allocation, symbol, name and justification the reply
\* gave it.
C2_WithinToleranceNoOp ==
    (NormalizationDone /\ ~DecFarFrom100(DecTotal)) =>
        /\ Len(df.rows) = Len(portfolio)
        /\ \A i \in DOMAIN portfolio :
              /\ "allocation" \in portfolio[i].keys
                    => OutAlloc(i) = FromDec(DecAlloc(i)[1], DecAlloc(i)[2])
              /\ "symbol" \in portfolio[i].keys => df.rows[i].symbol = portfolio[i].symbol
              /\ "name" \in portfolio[i].keys => df.rows[i].name = portfolio[i].name
              /\ "justification" \in portfolio[i].keys
                    => df.rows[i].justification = portfolio[i].justification

\* C3: a run ends either with the justification, the table and the chart all
\* rendered and no error shown, or with an error shown and none of the three
\* rendered.
C3_NoPartialSuccess ==
    RunEnded =>
        \/ FullPortfolioOutput /\ ~Rendered("error")
        \/ Rendered("error") /\ NoPortfolioOutput

\* An error message that names key k: the message of a failed key read, or
\* of a column selection that lists k among the columns not in the index.
NamesKey(msg, k) ==
    \/ msg = "'" \o k \o "'"
    \/ \E cols \in SUBSET EntryKeys :
          /\ k \notin cols
          /\ msg = "\"[" \o MissingList(cols, 1) \o "] not in index\""

\* C4: when an entry of the 'portfolio' array lacks one of the four keys, the
\* run ends with a KeyError naming a key that an entry lacks and the table is
\* not rendered; when an entry lacks 'allocation', no total is computed.
C4_EntryMissingKeyFails ==
    (RunEnded /\ content.kind = "object" /\ content.keys = TopKeys
        /\ \E i \in DOMAIN content.portfolio : content.portfolio[i].keys # EntryKeys) =>
        /\ exc.type = "KeyError"
        /\ \E i \in DOMAIN content.portfolio :
              \E k \in EntryKeys \ content.portfolio[i].keys : NamesKey(exc.msg, k)
        /\ ~Rendered("table")
        /\ (\E i \in DOMAIN content.portfolio : "allocation" \notin content.portfolio[i].keys)
              => total_alloc = NoTotal

\* C5: a press with an empty thesis, OpenAI key or FMP key ends at once with
\* the required-fields message as the only thing rendered and no completion
\* call; a completion call is made only with all three fields non-empty.
C5_MissingInputHalts ==
    /\ (pc # "idle" /\ (investment_thesis = "" \/ openai_api_key = "" \/ fmp_api_key = "")) =>
          /\ RunEnded
          /\ calls = 0
          /\ page = <<"error">>
          /\ error_text = MissingInputText
          /\ exc = NoExc
    /\ calls > 0 =>
          (investment_thesis # "" /\ openai_api_key # "" /\ fmp_api_key # "")

C5_Witness ==
    /\ RunEnded
    /\ investment_thesis = ""
    /\ openai_api_key # ""
    /\ fmp_api_key # ""
    /\ calls = 0
    /\ error_text = MissingInputText

\* C6: when the completion text is not JSON, the parse step raises the JSON
\* decoding error, the run goes through the except handler and ends with the
\* error shown, and the justification, table and chart are never rendered.
C6_MalformedResponseCaught ==
    content.kind = "text" =>
        /\ pc \in {"parse", "except", "done"}
        /\ NoPortfolioOutput
        /\ pc \in {"except", "done"} => exc.type = "JSONDecodeError"
        /\ RunEnded =>
              /\ Rendered("error")
              /\ error_text = "An error occurred: " \o exc.msg

C6_Witness ==
    /\ RunEnded
    /\ content.kind = "text"
    /\ exc.type = "JSONDecodeError"
    /\ Rendered("error")

\* C7: when the parsed object lacks 'portfolio' or 'overallJustification', the
\* run ends with a KeyError whose message, shown to the user, names an absent
\* key ('overallJustification' when only that one is absent), and nothing of
\* the portfolio is rendered.
C7_MissingTopLevelKey ==
    (content.kind = "object" /\ content.keys # TopKeys) =>
        /\ pc \in {"parse", "except", "done"}
        /\ NoPortfolioOutput
        /\ ~df.built
        /\ pc \in {"except", "done"} =>
              /\ exc.type = "KeyError"
              /\ \E k \in TopKeys \ content.keys : exc.msg = "'" \o k \o "'"
              /\ content.keys = {"portfolio"} => exc.msg = "'overallJustification'"
        /\ RunEnded =>
              /\ Rendered("error")
              /\ error_text = "An error occurred: " \o exc.msg

C7_Witness ==
    /\ RunEnded
    /\ content.kind = "object"
    /\ content.keys = {"portfolio"}
    /\ portfolio # <<>>
    /\ error_text = "An error occurred: 'overallJustification'"

\* C8: a run issues at most one completion call; when the call fails, the run
\* ends with the failure's message shown, still one call made, nothing of the
\* portfolio rendered, and a new submission possible.
C8_TransportFailureNoRetry ==
    /\ calls <= 1
    /\ exc \in TransportFailures =>
          /\ pc \in {"except", "done"}
          /\ calls = 1
          /\ content = NoContent
          /\ NoPortfolioOutput
          /\ RunEnded =>
                /\ Rendered("error")
                /\ error_text = "An error occurred: " \o exc.msg
                /\ ENABLED Submit

C8_Witness ==
    /\ RunEnded
    /\ exc \in TransportFailures
    /\ calls = 1
    /\ Rendered("error")

-----------------------------------------------------------------------------
(* Days of a timeframe, counted on the calendar.                            *)

DateLt(a, b) ==
    \/ a.year < b.year
    \/ a.year = b.year /\ a.month < b.month
    \/ a.year = b.year /\ a.month = b.month /\ a.day < b.day

\* The days of the calendar over the years the runs touch.
CalendarDays ==
    {dt \in {MkDate(y, m, d) : y \in 2023..2026, m \in 1..12, d \in 1..31} :
        dt.day <= DaysInMonth(dt.year, dt.month)}

\* The number of calendar days d with a <= d < b.
DaysSince(a, b) == Cardinality({d \in CalendarDays : ~DateLt(d, a) /\ DateLt(d, b)})

FirstOfQuarter(now) ==
    MkDate(now.year,
           IF now.month <= 3 THEN 1 ELSE IF now.month <= 6 THEN 4
           ELSE IF now.month <= 9 THEN 7 ELSE 10,
           1)

\* The days of the selected timeframe when the current date is now.
TimeframeDays(now) ==
    IF timeframe = "MTD" THEN DaysSince(MkDate(now.year, now.month, 1), now)
    ELSE IF timeframe = "QTD" THEN DaysSince(FirstOfQuarter(now), now)
    ELSE IF timeframe = "YTD" THEN DaysSince(MkDate(now.year, 1, 1), now)
    ELSE IF timeframe = "1Y" THEN 365
    ELSE IF timeframe = "5Y" THEN 1825
    ELSE DaysSince(custom_start_date, now)

\* C9: in a run that ends with the chart rendered, the 'Portfolio' and
\* benchmark series (and the date axis) have as many points as the selected
\* timeframe has days on a date that was current during the chart step: since
\* the first of the month, of the quarter, of the year, 365, 1825, or since
\* the custom date.
C9_SeriesLengthIsTimeframeDays ==
    (RunEnded /\ Rendered("chart")) =>
        /\ exc = NoExc
        /\ perf_df.built
        /\ \E now \in {today.first, today.last} :
              /\ perf_df.Portfolio = TimeframeDays(now)
              /\ perf_df.SPY = TimeframeDays(now)
              /\ perf_df.Date = TimeframeDays(now)

\* C10: the 'Adjusting' warning is shown exactly when the allocation column
\* is rescaled, and that is exactly when the total the code computed is more
\* than 0.1 away from 100; a zero or negative total is rescaled like any
\* other (division by a zero total gives inf or NaN cells), without an error
\* raised by the normalization step.
C10_WarningIffRescaled ==
    /\ NormalizationDone =>
          /\ total_alloc = InputTotal
          /\ Rendered("warning") <=> FarFrom100(total_alloc)
          /\ \A i \in DOMAIN portfolio :
                OutAlloc(i) = IF Rendered("warning")
                              THEN FMul(FDiv(InCell(i), total_alloc), FromDec(100, 1))
                              ELSE InCell(i)
          /\ ~FExceeds(total_alloc, 0, 1) => Rendered("warning")
          /\ FIsZero(total_alloc) =>
                \A i \in DOMAIN portfolio :
                    OutAlloc(i) = IF InCell(i).cls = "nan" \/ FIsZero(InCell(i))
                                  THEN FNaN ELSE FInf(InCell(i).sign * total_alloc.sign)
          /\ pc = "table" => exc = NoExc
    /\ (pc \in {"table", "chart", "done", "except"} /\ df.built
          /\ \E i \in DOMAIN portfolio : "allocation" \in portfolio[i].keys)
              => NormalizationDone
    /\ ~NormalizationDone => ~Rendered("warning")

C10_Witness ==
    /\ RunEnded
    /\ NormalizationDone
    /\ FIsZero(total_alloc)
    /\ Rendered("warning")
    /\ Rendered("table")
    /\ Len(portfolio) = 2
    /\ portfolio[1].keys = EntryKeys
    /\ portfolio[2].keys = EntryKeys
    /\ OutAlloc(1) = FInf(-1)
    /\ OutAlloc(2) = FInf(1)
    /\ exc = NoExc

=============================================================================
